---- MODULE Spec2Model ----
(***************************************************************************)
(* CodeThreat CLI: the scan-lifecycle orchestration of the API client     *)
(* (runScan, pollScanCompletion, getScanStatus) and the threshold checks   *)
(* of the `scan run` command.                                              *)
(*                                                                         *)
(* The repository holds two CodeThreatApiClient modules: the one with      *)
(* client-side polling and src/lib/api-client.ts, whose runScan forwards   *)
(* the caller's options to the server.  `client` says which of them the    *)
(* process has loaded.  Time is wall-clock milliseconds (Date.now()).      *)
(***************************************************************************)
EXTENDS Integers, Sequences, FiniteSets, TLC

VARIABLES
    client,        \* which CodeThreatApiClient module is loaded
    cfgOrgSlug,    \* this.config.organizationSlug ("" when unset)
    envOrgSlug,    \* process.env.CT_ORG_SLUG ("" when unset)
    pc,            \* position of the runScan promise / the scan run action
    options,       \* the options object runScan was called with
    now,           \* Date.now(), ms since runScan was called
    submits,       \* number of POST /api/v1/scans/run requests issued
    submitReq,     \* the submit request as sent (body fields, transport timeout)
    scanResponse,  \* what handleResponse returned for the submit
    startTime,     \* pollScanCompletion: const startTime
    timeoutMs,     \* pollScanCompletion: const timeoutMs
    pollIntervalMs,\* pollScanCompletion: const pollIntervalMs
    polls,         \* number of GET /api/v1/scans/{id}/status requests issued
    statusIds,     \* the scan ids those status requests named
    firstPollAt,   \* Date.now() when the first status request was issued
    lastPollAt,    \* Date.now() when the latest status request was issued
    nonTerminal,   \* status responses received so far that were not COMPLETED/FAILED
    statusResponse,\* the latest status response
    response,      \* the latest HTTP response as it settled
    sent,          \* the requests the client has issued: method, route, scan id
    instant,       \* every status call so far took 0 ms and every sleep was exact
    returned,      \* value the runScan promise resolved with
    thrown,        \* error the runScan promise rejected with
    cli,           \* the scan run action: its options, config and exit
    env,           \* process.env: the CT_* variables ("" when unset)
    savedCredentials, \* content of ~/.codethreat/.credentials
    fileConfig,    \* parsed content of the first config file that exists
    flags,         \* the global command-line options as typed
    stage,         \* how far the process has got: start-up, hook, command
    DEFAULT_CONFIG,\* config.ts: const DEFAULT_CONFIG
    currentConfig, \* config.ts: let currentConfig
    apiClientConfig, \* the apiClient singleton's this.config
    baseURL,       \* the apiClient singleton's axios baseURL
    configError,   \* error loadConfig threw
    requests,      \* number of HTTP requests the command has sent
    lastRequest,   \* base URL and X-API-Key of the latest request
    userFile,      \* content of ~/.codethreat/config.yml as saveConfig wrote it
    lastOp,        \* the latest saveConfig/updateConfig call and the snapshot before it
    configOps      \* number of saveConfig/updateConfig calls so far

vars == <<client, cfgOrgSlug, envOrgSlug, pc, options, now, submits, submitReq,
          scanResponse, startTime, timeoutMs, pollIntervalMs, polls, statusIds,
          firstPollAt, lastPollAt, nonTerminal, statusResponse, response, sent, instant,
          returned, thrown, cli, env, savedCredentials, fileConfig, flags, stage,
          DEFAULT_CONFIG, currentConfig, apiClientConfig, baseURL, configError,
          requests, lastRequest, userFile, lastOp, configOps>>

confVars == <<env, savedCredentials, fileConfig, flags, stage, DEFAULT_CONFIG,
              currentConfig, apiClientConfig, baseURL, configError, requests,
              lastRequest, userFile, lastOp, configOps>>

-----------------------------------------------------------------------------
(* Bounds of the model *)

\* status requests one run may issue before the model stops following it
MaxPolls == 3

\* --timeout values (seconds); 0 stands for "absent, 0 or NaN" (falsy)
TimeoutChoices == {0, 2, 25}
\* --poll-interval values (seconds); 0 stands for "absent, 0 or NaN" (falsy)
PollIntervalChoices == {0, 10}
\* organization slugs; "" stands for undefined or empty (falsy)
SlugChoices == {"", "acme"}
\* how long a request may take before it settles (ms)
CallDurations == {0, 1500}
\* how much later than asked a setTimeout may fire (ms)
SleepOvershoots == {0, 2000}
ScanIds == {"s1", "s2"}

\* an absent object (undefined)
NoValue == [absent |-> TRUE]
\* no error
NoError == [kind |-> "none"]

-----------------------------------------------------------------------------
(* Program constants *)

SubmitRequestTimeoutMs == 30000
BodyTimeout == 1800
BodyPollInterval == 10
DefaultPollTimeout == 43200
DefaultPollInterval == 30
LegacyDefaultTimeout == 1800
LegacyBufferMs == 30000
MsPerSecond == 1000

NonTerminalStatuses == {"PENDING", "SCANNING", "QUEUED"}
Statuses == NonTerminalStatuses \cup {"COMPLETED", "FAILED"}

\* results of a status response: violationCount and summary per tier
mkResults(t, c, h, m, l) ==
    [violationCount |-> t, summary |-> [critical |-> c, high |-> h, medium |-> m, low |-> l]]

\* (the server computes violationCount and the summary; the last one counts two
\* violations of a severity outside the four tiers)
ResultsChoices ==
    { mkResults(0, 0, 0, 0, 0), mkResults(10, 1, 2, 3, 4), mkResults(7, 5, 0, 0, 0) }

\* ScanStatusResponse as the server may send it for scan id
StatusResponses(id) ==
    [scan : [id : {id}, status : Statuses], results : ResultsChoices]

\* ScanRunResponse of the submit: the job was created, asynchronously
SubmitResponses ==
    [scan : [id : ScanIds, status : {"PENDING", "SCANNING"}],
     synchronous : {FALSE}, results : {NoValue}, duration : {0}]

\* what a service that recognises a repeated submit answers: the scan it
\* already has for these arguments (prev: the answer to the earlier submit)
AlreadyExistsResponses(prev) ==
    { [scan |-> prev.scan, synchronous |-> FALSE, results |-> NoValue, duration |-> 0,
       alreadyExists |-> TRUE] }

\* what the server of the legacy protocol may answer when asked to wait
SyncSubmitResponses ==
    [scan : [id : ScanIds, status : {"COMPLETED"}],
     synchronous : {TRUE},
     results : {[total |-> 5, critical |-> 5, high |-> 0, medium |-> 0, low |-> 0]},
     duration : {12}]

\* a || b on numbers: b when a is falsy (0 / NaN / undefined)
OrElse(a, b) == IF a = 0 THEN b ELSE a

\* a || b on strings
OrElseStr(a, b) == IF a = "" THEN b ELSE a

\* ApiResponse.error: undefined, or a code with its message
NoApiError == [code |-> "", message |-> ""]
ApiErrors == {NoApiError, [code |-> "SCAN_LIMIT_REACHED", message |-> "Scan limit reached"]}

\* how a request may settle: a 2xx ApiResponse carrying d, a 2xx ApiResponse with
\* success false, one without data, or no 2xx at all
Settled(dataSet) ==
    [http : {200}, success : {TRUE}, hasData : {TRUE}, data : dataSet, error : {NoApiError}]
    \cup [http : {200}, success : {TRUE}, hasData : {FALSE}, data : {NoValue},
          error : {NoApiError}]
    \cup [http : {200}, success : {FALSE}, hasData : BOOLEAN, data : {NoValue},
          error : ApiErrors]
    \cup [http : {401, 500}, success : {FALSE}, hasData : {FALSE}, data : {NoValue},
          error : ApiErrors]

\* the error a request that did not yield data rejects with: the AxiosError the
\* response interceptor rethrows (it holds the response: status and body), or
\* the Error handleResponse makes from a message alone (http 0, no code)
remoteError(x) ==
    IF x.http # 200
    THEN [kind |-> "remote_error", cause |-> "http_error", http |-> x.http,
          code |-> x.error.code, message |-> x.error.message]
    ELSE IF ~x.success
    THEN [kind |-> "remote_error", cause |-> "api_failure", http |-> 0, code |-> "",
          message |-> OrElseStr(x.error.message, "API request failed")]
    ELSE [kind |-> "remote_error", cause |-> "no_data", http |-> 0, code |-> "",
          message |-> "No data in API response"]

\* Math.round(ms / 1000) for ms >= 0
RoundSeconds(ms) == (ms + 500) \div MsPerSecond

\* the configuration module and the process start-up are followed by ConfigSpec
\* only; elsewhere their variables rest
configAtRest ==
    /\ env = NoValue
    /\ savedCredentials = NoValue
    /\ fileConfig = NoValue
    /\ flags = NoValue
    /\ stage = "library"
    /\ DEFAULT_CONFIG = NoValue
    /\ currentConfig = NoValue
    /\ apiClientConfig = NoValue
    /\ baseURL = ""
    /\ configError = NoError
    /\ requests = 0
    /\ lastRequest = NoValue
    /\ userFile = NoValue
    /\ lastOp = NoValue
    /\ configOps = 0

-----------------------------------------------------------------------------
Init ==
    /\ client \in {"polling", "legacy"}
    /\ cfgOrgSlug \in SlugChoices
    /\ envOrgSlug \in SlugChoices
    /\ pc = "idle"
    /\ options = NoValue
    /\ now = 0
    /\ submits = 0
    /\ submitReq = NoValue
    /\ scanResponse = NoValue
    /\ startTime = 0
    /\ timeoutMs = 0
    /\ pollIntervalMs = 0
    /\ polls = 0
    /\ statusIds = {}
    /\ firstPollAt = 0
    /\ lastPollAt = 0
    /\ nonTerminal = 0
    /\ statusResponse = NoValue
    /\ response = NoValue
    /\ sent = {}
    /\ instant = TRUE
    /\ returned = NoValue
    /\ thrown = NoError
    /\ cli = [stage |-> "library"]
    /\ configAtRest

pollVars == <<startTime, timeoutMs, pollIntervalMs, polls, statusIds, firstPollAt, lastPollAt,
              nonTerminal, statusResponse, instant>>

\* runScan: client.post('/api/v1/scans/run', requestBody)
scanRunRequest == [method |-> "POST", route |-> "/api/v1/scans/run", id |-> ""]

\* (variant) the status is fetched with a request that writes
statusRequestPost(id) == [method |-> "POST", route |-> "/api/v1/scans/{id}/status", id |-> id]

\* getScanStatus: client.get(`/api/v1/scans/${scanId}/status`)
statusRequest(id) == [method |-> "GET", route |-> "/api/v1/scans/{id}/status", id |-> id]

\* runScan: the organization slug the request carries
resolveOrganizationSlug(o) ==
    OrElseStr(o.organizationSlug, OrElseStr(cfgOrgSlug, envOrgSlug))

\* runScan: the request body and transport timeout of the submit (polling client)
buildSubmitRequest(o) ==
    [organizationSlug |-> resolveOrganizationSlug(o),
     wait |-> FALSE,
     timeout |-> BodyTimeout,
     pollInterval |-> BodyPollInterval,
     requestTimeoutMs |-> SubmitRequestTimeoutMs]

\* runScan of src/lib/api-client.ts: the options object is the body
legacySubmitRequest(o) ==
    [organizationSlug |-> o.organizationSlug,
     wait |-> o.wait,
     timeout |-> o.timeout,
     pollInterval |-> o.pollInterval,
     requestTimeoutMs |-> IF o.wait
                          THEN OrElse(o.timeout, LegacyDefaultTimeout) * MsPerSecond + LegacyBufferMs
                          ELSE SubmitRequestTimeoutMs]

\* runScan, up to its first await (polling client)
runScanPolling(o) ==
    /\ client = "polling"
    /\ options' = o
    /\ IF resolveOrganizationSlug(o) = ""
       THEN /\ thrown' = [kind |-> "missing_org"]
            /\ pc' = "done"
            /\ UNCHANGED <<submits, submitReq, sent>>
       ELSE /\ submits' = submits + 1
            /\ submitReq' = buildSubmitRequest(o)
            /\ sent' = sent \cup {scanRunRequest}
            /\ pc' = "submit_pending"
            /\ UNCHANGED thrown

\* runScan of src/lib/api-client.ts, up to its await
runScanLegacy(o) ==
    /\ client = "legacy"
    /\ options' = o
    /\ submits' = submits + 1
    /\ submitReq' = legacySubmitRequest(o)
    /\ sent' = sent \cup {scanRunRequest}
    /\ pc' = "submit_pending"
    /\ UNCHANGED thrown

runScan ==
    /\ pc = "idle"
    /\ \E o \in [organizationSlug : SlugChoices, wait : BOOLEAN,
                 timeout : TimeoutChoices, pollInterval : PollIntervalChoices] :
          runScanPolling(o) \/ runScanLegacy(o)
    /\ UNCHANGED confVars
    /\ UNCHANGED <<client, cfgOrgSlug, envOrgSlug, now, scanResponse, pollVars, response,
                   returned, cli>>

\* response interceptor and handleResponse: the data comes back only from a 2xx
\* response whose body has success and data
handleResponse(x) == x.http = 200 /\ x.success /\ x.hasData

\* (variant) the client polls whatever the caller asked
shouldPollAlways(o) == TRUE

\* runScan: whether the client polls after the submit
shouldPoll(o) == o.wait

\* runScan: the scan id handed to pollScanCompletion
pollTarget(sub) == sub.scan.id

\* (variant) the deadline itself still counts as inside the timeout
withinDeadlineInclusive(t, st, tmo) == t - st <= tmo

\* pollScanCompletion: the while condition, at wall-clock time t
withinDeadline(t, st, tmo) == t - st < tmo

\* pollScanCompletion: const startTime = Date.now(), taken when polling starts at t
pollStartTime(t) == t

\* (variant) the delay grows with the number of polls made
sleepMsBackoff(p, k) == p * k

\* (variant) no delay at all
sleepMsNone(p, k) == 0

\* pollScanCompletion: the delay handed to setTimeout before the k-th next poll
sleepMs(p, k) == p

\* (variant) the handle of the submit response is returned, not the one polled
completedResultStaleScan(r, sub, elapsedMs) ==
    [scan |-> sub.scan,
     synchronous |-> TRUE,
     results |-> [total |-> r.results.violationCount,
                  critical |-> r.results.summary.critical,
                  high |-> r.results.summary.high,
                  medium |-> r.results.summary.medium,
                  low |-> r.results.summary.low],
     duration |-> RoundSeconds(elapsedMs)]

\* pollScanCompletion: the value returned when a status response r says COMPLETED
completedResult(r, sub, elapsedMs) ==
    [scan |-> r.scan,
     synchronous |-> TRUE,
     results |-> [total |-> r.results.violationCount,
                  critical |-> r.results.summary.critical,
                  high |-> r.results.summary.high,
                  medium |-> r.results.summary.medium,
                  low |-> r.results.summary.low],
     duration |-> RoundSeconds(elapsedMs)]

\* (variant) a status the Scan type does not list ends the loop as a failure
statusVerdictUnknownThrows(status) ==
    IF status = "COMPLETED" THEN "return"
    ELSE IF status \in {"PENDING", "SCANNING"} THEN "sleep"
    ELSE "throw"

\* (variant) FAILED is taken for a transient state and polled again
statusVerdictRetryFailed(status) ==
    IF status = "COMPLETED" THEN "return" ELSE "sleep"

\* pollScanCompletion: what a status value makes the loop do
statusVerdict(status) ==
    IF status = "COMPLETED" THEN "return"
    ELSE IF status = "FAILED" THEN "throw"
    ELSE "sleep"

\* pollScanCompletion: the top of the while loop at time t, for scan id.
\* Either the next getScanStatus request goes out or the timeout is thrown.
loopHead(t, st, tmo, id, secs) ==
    IF withinDeadline(t, st, tmo)
    THEN /\ polls < MaxPolls
         /\ polls' = polls + 1
         /\ statusIds' = statusIds \cup {id}
         /\ sent' = sent \cup {statusRequest(id)}
         /\ firstPollAt' = (IF polls = 0 THEN t ELSE firstPollAt)
         /\ lastPollAt' = t
         /\ pc' = "status_pending"
         /\ UNCHANGED thrown
    ELSE /\ thrown' = [kind |-> "timeout", seconds |-> secs, scanId |-> id]
         /\ pc' = "done"
         /\ UNCHANGED <<polls, statusIds, firstPollAt, lastPollAt, sent>>

\* the submit settles: runScan resumes after its await
submitSettles ==
    /\ pc = "submit_pending"
    /\ \E d \in CallDurations :
         /\ now' = now + d
         /\ \/ \E x \in Settled({NoValue}) :
                 /\ ~handleResponse(x)
                 /\ response' = x
                 /\ thrown' = remoteError(x)
                 /\ pc' = "done"
                 /\ UNCHANGED <<scanResponse, pollVars, returned, sent>>
            \/ \E x \in Settled(SubmitResponses \cup
                        (IF submitReq.wait THEN SyncSubmitResponses ELSE {}) \cup
                        (IF submits > 1 THEN AlreadyExistsResponses(scanResponse) ELSE {})) :
              LET r == x.data IN
                 /\ handleResponse(x)
                 /\ response' = x
                 /\ scanResponse' = r
                 /\ IF client = "polling" /\ shouldPoll(options)
                    THEN LET secs == OrElse(options.timeout, DefaultPollTimeout)
                             ivl  == OrElse(options.pollInterval, DefaultPollInterval)
                         IN /\ startTime' = pollStartTime(now')
                            /\ timeoutMs' = secs * MsPerSecond
                            /\ pollIntervalMs' = ivl * MsPerSecond
                            /\ loopHead(now', startTime', timeoutMs', pollTarget(r), secs)
                            /\ UNCHANGED <<nonTerminal, statusResponse, instant, returned>>
                    ELSE /\ returned' = r
                         /\ pc' = "done"
                         /\ UNCHANGED <<pollVars, thrown, sent>>
    /\ UNCHANGED confVars
    /\ UNCHANGED <<client, cfgOrgSlug, envOrgSlug, options, submits, submitReq, cli>>

\* a status request settles: pollScanCompletion resumes after its await
getScanStatusSettles ==
    /\ pc = "status_pending"
    /\ \E d \in CallDurations :
         /\ now' = now + d
         /\ instant' = (instant /\ d = 0)
         /\ \/ \E x \in Settled({NoValue}) :
                 /\ ~handleResponse(x)
                 /\ response' = x
                 /\ thrown' = remoteError(x)
                 /\ pc' = "done"
                 /\ UNCHANGED <<nonTerminal, statusResponse, returned>>
            \/ \E x \in Settled(UNION {StatusResponses(id) : id \in statusIds}) :
              LET r == x.data IN
                 /\ handleResponse(x)
                 /\ response' = x
                 /\ statusResponse' = r
                 /\ CASE statusVerdict(r.scan.status) = "return" ->
                           /\ returned' = completedResult(r, scanResponse, now' - startTime)
                           /\ pc' = "done"
                           /\ UNCHANGED <<nonTerminal, thrown>>
                      [] statusVerdict(r.scan.status) = "throw" ->
                           /\ thrown' = [kind |-> "scan_failed"]
                           /\ pc' = "done"
                           /\ UNCHANGED <<nonTerminal, returned>>
                      [] OTHER ->
                           /\ nonTerminal' = nonTerminal + 1
                           /\ pc' = "sleeping"
                           /\ UNCHANGED <<returned, thrown>>
    /\ UNCHANGED confVars
    /\ UNCHANGED <<client, cfgOrgSlug, envOrgSlug, options, submits, submitReq,
                   scanResponse, startTime, timeoutMs, pollIntervalMs, polls,
                   statusIds, firstPollAt, lastPollAt, sent, cli>>

\* the sleep between two polls ends: the loop comes round to its condition
setTimeoutFires ==
    /\ pc = "sleeping"
    /\ \E e \in SleepOvershoots :
         /\ now' = now + sleepMs(pollIntervalMs, polls) + e
         /\ instant' = (instant /\ e = 0)
         /\ loopHead(now', startTime, timeoutMs, pollTarget(scanResponse),
                     timeoutMs \div MsPerSecond)
    /\ UNCHANGED confVars
    /\ UNCHANGED <<client, cfgOrgSlug, envOrgSlug, options, submits, submitReq,
                   scanResponse, startTime, timeoutMs, pollIntervalMs, nonTerminal,
                   statusResponse, response, returned, cli>>

Next ==
    \/ runScan
    \/ submitSettles
    \/ getScanStatusSettles
    \/ setTimeoutFires

Spec == Init /\ [][Next]_vars

\* Every pending request settles (axios gives up after its timeout) and every
\* setTimeout fires: the event loop runs the continuation of each await.
LiveSpec ==
    /\ Spec
    /\ WF_vars(submitSettles)
    /\ WF_vars(getScanStatusSettles)
    /\ WF_vars(setTimeoutFires)

-----------------------------------------------------------------------------
(* The `scan run` command: what its action does once runScan has settled *)

\* violation counts a completed scan may report to the command
CliResultsChoices ==
    { mkResults(0, 0, 0, 0, 0),   mkResults(1, 0, 0, 0, 1),
      mkResults(5, 5, 0, 0, 0),   mkResults(5, 0, 5, 0, 0),
      mkResults(5, 0, 0, 5, 0),   mkResults(5, 0, 0, 0, 5),
      mkResults(50, 5, 5, 20, 20), mkResults(51, 5, 5, 20, 21) }

\* values of --max-critical/--max-high/--max-medium/--max-low as typed
ThresholdTexts == {"", "-1", "0", "5", "6", "x"}
\* values of CT_MAX_VIOLATIONS ("" when unset)
MaxViolationsTexts == {"", "0", "50", "x"}

Num(n) == [kind |-> "num", n |-> n]
NaN == [kind |-> "nan", n |-> 0]
Undefined == [kind |-> "undefined", n |-> 0]

\* parseInt(text, 10) on the texts of the model
parseInt(text) ==
    CASE text = "-1" -> Num(0 - 1)
      [] text = "0"  -> Num(0)
      [] text = "5"  -> Num(5)
      [] text = "6"  -> Num(6)
      [] text = "50" -> Num(50)
      [] text = "4"  -> Num(4)
      [] text = "7"  -> Num(7)
      [] text = "10" -> Num(10)
      [] text = "59" -> Num(59)
      [] text = "60" -> Num(60)
      [] text = "61" -> Num(61)
      [] text = "1800" -> Num(1800)
      [] text = "3600" -> Num(3600)
      [] text = "3601" -> Num(3601)
      [] OTHER       -> NaN

\* a >= v and a > v for a number a and a parsed v: false when v is NaN/undefined
GreaterEq(a, v) == v.kind = "num" /\ a >= v.n
Greater(a, v) == v.kind = "num" /\ a > v.n
\* truthiness of a parsed value: undefined, NaN and 0 are falsy
Truthy(v) == v.kind = "num" /\ v.n # 0

\* parseInt(options.maxX || '-1', 10)
parseThreshold(text) == parseInt(IF text = "" THEN "-1" ELSE text)

\* getEnvConfig: maxViolations from CT_MAX_VIOLATIONS
envMaxViolations(text) == IF text # "" THEN parseInt(text) ELSE Undefined

\* v >= k for a parsed v and a number k
AtLeast(v, k) == v.kind = "num" /\ v.n >= k

\* (variant) a tier fails only above its threshold
tierCheckStrict(count, v) == AtLeast(v, 0) /\ Greater(count, v)

\* scan run: one tier's check, `maxX >= 0 && result.results.x >= maxX`
tierCheck(count, v) == AtLeast(v, 0) /\ GreaterEq(count, v)

\* scan run: the aggregate check, `config.maxViolations && total > config.maxViolations`
maxViolationsCheck(total, m) == Truthy(m) /\ Greater(total, m)

\* (variant) the aggregate check and the lower tiers are looked at first
thresholdExitAggregateFirst(results, th, m) ==
    IF maxViolationsCheck(results.total, m) THEN [exitCode |-> 1, reason |-> "maxViolations"]
    ELSE IF tierCheck(results.low, th.low) THEN [exitCode |-> 1, reason |-> "low"]
    ELSE IF tierCheck(results.medium, th.medium) THEN [exitCode |-> 1, reason |-> "medium"]
    ELSE IF tierCheck(results.high, th.high) THEN [exitCode |-> 1, reason |-> "high"]
    ELSE IF tierCheck(results.critical, th.critical) THEN [exitCode |-> 1, reason |-> "critical"]
    ELSE [exitCode |-> 0, reason |-> "none"]

\* scan run: the threshold checks in their order; the first that fires exits
thresholdExit(results, th, m) ==
    IF tierCheck(results.critical, th.critical) THEN [exitCode |-> 1, reason |-> "critical"]
    ELSE IF tierCheck(results.high, th.high) THEN [exitCode |-> 1, reason |-> "high"]
    ELSE IF tierCheck(results.medium, th.medium) THEN [exitCode |-> 1, reason |-> "medium"]
    ELSE IF tierCheck(results.low, th.low) THEN [exitCode |-> 1, reason |-> "low"]
    ELSE IF maxViolationsCheck(results.total, m) THEN [exitCode |-> 1, reason |-> "maxViolations"]
    ELSE [exitCode |-> 0, reason |-> "none"]

\* scan run: the action once `await apiClient.runScan(...)` has settled
scanRunAction ==
    /\ pc = "done"
    /\ cli.stage = "awaiting"
    /\ \E format \in {"json", "table"}, toFile \in BOOLEAN,
          c \in ThresholdTexts, h \in ThresholdTexts,
          m \in ThresholdTexts, l \in ThresholdTexts :
        LET th == [critical |-> parseThreshold(c), high |-> parseThreshold(h),
                   medium |-> parseThreshold(m), low |-> parseThreshold(l)]
            outcome ==
                IF thrown # NoError
                THEN [exitCode |-> 1, reason |-> "error", evaluated |-> FALSE]
                ELSE IF format = "json"
                THEN [exitCode |-> 0, reason |-> "none", evaluated |-> FALSE]
                ELSE IF returned.synchronous /\ returned.results # NoValue
                THEN thresholdExit(returned.results, th, cli.config.maxViolations)
                         @@ [evaluated |-> TRUE]
                ELSE [exitCode |-> 0, reason |-> "none", evaluated |-> FALSE]
        IN cli' = [stage |-> "exited", config |-> cli.config,
                   format |-> format, toFile |-> toFile, thresholds |-> th,
                   exitCode |-> outcome.exitCode, reason |-> outcome.reason,
                   evaluated |-> outcome.evaluated]
    /\ UNCHANGED confVars
    /\ UNCHANGED <<client, cfgOrgSlug, envOrgSlug, pc, options, now, submits, submitReq,
                   scanResponse, pollVars, response, sent, returned, thrown>>

\* The process when runScan settles inside the scan run action: a waited scan
\* whose first status response was terminal, an unwaited scan, or a rejection.
CliInit ==
    LET sub == [scan |-> [id |-> "s1", status |-> "PENDING"],
                synchronous |-> FALSE, results |-> NoValue, duration |-> 0]
    IN
    /\ client = "polling"
    /\ cfgOrgSlug = ""
    /\ envOrgSlug = ""
    /\ pc = "done"
    /\ \E w \in BOOLEAN :
         options = [organizationSlug |-> "acme", wait |-> w, timeout |-> 25, pollInterval |-> 10]
    /\ now = 0
    /\ submits = 1
    /\ submitReq = buildSubmitRequest(options)
    /\ scanResponse = sub
    /\ startTime = 0
    /\ timeoutMs = (IF options.wait THEN 25 * MsPerSecond ELSE 0)
    /\ pollIntervalMs = (IF options.wait THEN 10 * MsPerSecond ELSE 0)
    /\ polls = (IF options.wait THEN 1 ELSE 0)
    /\ statusIds = (IF options.wait THEN {"s1"} ELSE {})
    /\ firstPollAt = 0
    /\ lastPollAt = 0
    /\ nonTerminal = 0
    /\ instant = TRUE
    /\ IF options.wait
       THEN \E st \in {"COMPLETED", "FAILED"}, res \in CliResultsChoices :
              /\ statusResponse = [scan |-> [id |-> "s1", status |-> st], results |-> res]
              /\ returned = (IF st = "COMPLETED"
                             THEN completedResult(statusResponse, sub, 0) ELSE NoValue)
              /\ thrown = (IF st = "COMPLETED" THEN NoError ELSE [kind |-> "scan_failed"])
       ELSE /\ statusResponse = NoValue
            /\ returned = sub
            /\ thrown = NoError
    /\ response = [http |-> 200, success |-> TRUE, hasData |-> TRUE,
                   data |-> (IF options.wait THEN statusResponse ELSE sub),
                   error |-> NoApiError]
    /\ sent = {scanRunRequest} \cup (IF options.wait THEN {statusRequest("s1")} ELSE {})
    /\ \E mv \in MaxViolationsTexts :
         cli = [stage |-> "awaiting", config |-> [maxViolations |-> envMaxViolations(mv)]]
    /\ configAtRest

CliNext == scanRunAction

CliSpec == CliInit /\ [][CliNext]_vars

-----------------------------------------------------------------------------
(* Properties of the threshold checks of `scan run` *)

Evaluated == cli.stage = "exited" /\ cli.evaluated
TierSet == {"critical", "high", "medium", "low"}
\* tier t's threshold is enabled (a number >= 0) and the tier's count reaches it
TierFires(t) ==
    /\ cli.thresholds[t].kind = "num"
    /\ cli.thresholds[t].n >= 0
    /\ returned.results[t] >= cli.thresholds[t].n

C7_AggregateStrictlyAbove ==
    (/\ Evaluated
     /\ ~(\E t \in TierSet : TierFires(t))
     /\ cli.config.maxViolations.kind = "num"
     /\ cli.config.maxViolations.n >= 0)
      => ((cli.exitCode = 1) <=> (returned.results.total > cli.config.maxViolations.n))

-----------------------------------------------------------------------------
(* Properties of the poll loop (the client with client-side polling) *)

Polling == client = "polling"
Observed(status) == statusResponse # NoValue /\ statusResponse.scan.status = status
CeilDiv(a, b) == (a + b - 1) \div b

\* C1: when the first terminal status observed is FAILED, at position k (the
\* k-1 earlier ones PENDING/SCANNING), the loop has issued exactly k status
\* calls, has ended with the failure outcome, and issues no call afterwards.
C1_FailedEndsPollAtK ==
    Polling =>
      /\ Observed("FAILED") =>
            /\ pc = "done"
            /\ thrown.kind = "scan_failed"
            /\ returned = NoValue
            /\ polls = nonTerminal + 1
      /\ thrown.kind = "scan_failed" => Observed("FAILED")

\* [PENDING, SCANNING, FAILED]: failure after exactly 3 polls
C1_Witness ==
    /\ Polling /\ Observed("FAILED") /\ thrown.kind = "scan_failed"
    /\ nonTerminal = 2 /\ polls = 3

\* C2: with status calls that take no time and exact sleeps, a sequence that
\* never turns terminal is polled at elapsed 0, p, 2p, ... below T only
\* (ceil(T/p) calls, constant interval p) and then ends in the timeout outcome.
C2_ConstantIntervalThenTimeout ==
    (Polling /\ instant /\ polls >= 1) =>
      /\ lastPollAt - startTime = (polls - 1) * pollIntervalMs
      /\ lastPollAt - startTime < timeoutMs
      /\ polls <= CeilDiv(timeoutMs, pollIntervalMs)
      /\ thrown.kind = "timeout" => polls = CeilDiv(timeoutMs, pollIntervalMs)
      /\ (nonTerminal = CeilDiv(timeoutMs, pollIntervalMs) /\ pc # "sleeping")
            => (pc = "done" /\ thrown.kind = "timeout")

\* p = 10, T = 25: three polls at 0 s, 10 s, 20 s, then the timeout
C2_Witness ==
    /\ Polling /\ instant /\ thrown.kind = "timeout"
    /\ options.timeout = 25 /\ options.pollInterval = 10
    /\ polls = 3 /\ lastPollAt - startTime = 20000
    /\ now - startTime = 30000

\* C3: no status call begins once the wall-clock time since the first poll has
\* reached the timeout, whatever the calls and sleeps lasted; the timeout
\* outcome is given only once that time has passed; and a sleep that ends at
\* or after the deadline is followed by the timeout, not by another call.
C3_DeadlineState ==
    (Polling /\ polls >= 1) =>
      /\ lastPollAt - firstPollAt < timeoutMs
      /\ thrown.kind = "timeout" => now - firstPollAt >= timeoutMs

C3_DeadlineStep ==
    (Polling /\ pc = "sleeping" /\ now' - firstPollAt >= timeoutMs)
        => (polls' = polls /\ pc' = "done" /\ thrown'.kind = "timeout")

C3_HardDeadline == []C3_DeadlineState /\ [][C3_DeadlineStep]_vars

\* the deadline passed during a sleep that was late, after slow status calls
C3_Witness ==
    /\ Polling /\ ~instant /\ thrown.kind = "timeout" /\ polls >= 2
    /\ now - lastPollAt > pollIntervalMs

\* C4: the submit request does not depend on the caller's wait, timeout and
\* pollInterval: its wait flag is false and its transport timeout is the fixed
\* 30 s.  (Stated for every runScan of the repository.)
C4_SubmitNeverWaits ==
    submitReq # NoValue =>
      /\ submitReq.wait = FALSE
      /\ submitReq.requestTimeoutMs = SubmitRequestTimeoutMs

\* C5: when the organization slug resolves to nothing (argument, configuration
\* and environment all empty), runScan fails with the missing-organization
\* error and no request is issued.
C5_NoRequestWithoutOrganization ==
    (pc # "idle" /\ options.organizationSlug = "" /\ cfgOrgSlug = "" /\ envOrgSlug = "")
      => (thrown.kind = "missing_org" /\ submits = 0 /\ polls = 0)

\* C8: a status response that says COMPLETED ends the loop with the success
\* outcome (synchronous), whose handle and counts are those of that very
\* response; no status request follows it.
C8_CompletedReturnsSameSnapshot ==
    (Polling /\ Observed("COMPLETED")) =>
      /\ pc = "done"
      /\ thrown = NoError
      /\ returned # NoValue
      /\ returned.synchronous = TRUE
      /\ returned.scan = statusResponse.scan
      /\ returned.results.total = statusResponse.results.violationCount
      /\ \A t \in {"critical", "high", "medium", "low"} :
            returned.results[t] = statusResponse.results.summary[t]
      /\ polls = nonTerminal + 1

\* COMPLETED at the second poll, with counts the submit did not have
C8_Witness ==
    /\ Polling /\ Observed("COMPLETED") /\ polls = 2 /\ nonTerminal = 1
    /\ returned # NoValue /\ returned.results.total = 10 /\ returned.results.low = 4

\* the runScan promise has settled in exactly one of the four outcomes
OutcomeKinds ==
    { k \in {"success", "scan_failed", "timeout", "remote_error"} :
        \/ k = "success" /\ returned # NoValue /\ thrown = NoError
        \/ k # "success" /\ returned = NoValue /\ thrown.kind = k }

WaitedScan ==
    /\ Polling /\ pc = "submit_pending"
    /\ options.wait /\ options.timeout > 0 /\ options.pollInterval > 0

\* C9: a waited runScan with T > 0 and p > 0 terminates, whatever statuses the
\* service reports, in exactly one of: success (COMPLETED observed), scan
\* failure (FAILED observed), timeout, remote-service error.
C9_Outcome ==
    (Polling /\ pc = "done" /\ submits = 1 /\ options.wait) =>
      /\ Cardinality(OutcomeKinds) = 1
      /\ ("success" \in OutcomeKinds) <=> Observed("COMPLETED")
      /\ ("scan_failed" \in OutcomeKinds) <=> Observed("FAILED")

C9_WaitedScanTerminates == (WaitedScan ~> pc = "done") /\ []C9_Outcome

\* a waited scan that ended by the timeout after polling a running scan
C9_Witness ==
    /\ Polling /\ pc = "done" /\ options.wait /\ options.timeout = 25
    /\ OutcomeKinds = {"timeout"} /\ nonTerminal = 3

\* C10: runScan issues one submit, before any status call; the status calls
\* name the scan id the submit returned; with wait = false it returns the
\* submit's handle and issues no status call.
C10_SubmitOnceThenStatus ==
    /\ submits <= 1
    /\ (pc # "idle" /\ thrown.kind # "missing_org") => submits = 1
    /\ polls >= 1 => (submits = 1 /\ scanResponse # NoValue
                       /\ statusIds = {scanResponse.scan.id})
    /\ (pc # "idle" /\ ~options.wait) => polls = 0
    /\ (pc = "done" /\ ~options.wait /\ thrown = NoError) => returned = scanResponse

\* an unwaited scan returned the PENDING handle of the submit
C10_Witness ==
    /\ Polling /\ pc = "done" /\ ~options.wait /\ thrown = NoError
    /\ returned # NoValue /\ returned.scan.status = "PENDING"
    /\ submits = 1 /\ polls = 0

-----------------------------------------------------------------------------
(* Configuration resolution and process start-up: config/config.ts and      *)
(* index.ts.  A configuration object is a function from field names to      *)
(* values; strings that are undefined or empty are "", numbers are the      *)
(* Num/NaN/Undefined values parseInt yields.  Of CLIConfig the fields        *)
(* serverUrl, apiKey, organizationId, defaultTimeout, defaultPollInterval,  *)
(* maxViolations and verbose are followed.                                   *)

\* HTTP requests one command may send before the model stops following it
MaxRequests == 2
\* saveConfig/updateConfig calls the model follows
MaxConfigOps == 2

MinTimeout == 60
MaxTimeout == 3600
MinPollInterval == 5
MaxPollInterval == 60

ServerUrlDefault == "https://api.codethreat.com"
FlagServerUrlDefault == "https://app.codethreat.com"

\* the URLs of the model for which serverUrl.startsWith('http') is true
HttpUrls ==
    {ServerUrlDefault, FlagServerUrlDefault, "https://env.example", "https://saved.example",
     "https://file.example", "https://flag.example", "https://new.example"}
startsWithHttp(url) == url \in HttpUrls

\* process.env at start-up
EnvChoices ==
    [CT_SERVER_URL : {"", "https://env.example"},
     CT_PRODUCTION_URL : {""},
     CT_API_KEY : {"", "key-env"},
     CT_ORG_ID : {"", "org-env"},
     CT_TIMEOUT : {"", "59", "60", "3600", "3601", "x"},
     CT_POLL_INTERVAL : {"", "4", "5", "60", "61"},
     CT_MAX_VIOLATIONS : {"", "7"},
     CT_VERBOSE : {"", "true", "false"}]

\* ~/.codethreat/.credentials: missing, or what `auth login` wrote
CredentialChoices ==
    { [apiKey |-> "", serverUrl |-> ""],
      [apiKey |-> "key-saved", serverUrl |-> "https://saved.example"] }

\* no config file (or an empty one)
EmptyFile == [k \in {} |-> ""]

\* what yaml.parse may return for the first config file that exists; the last
\* one is the file `config init` writes (getConfigTemplate), edited by the user
FileChoices ==
    { EmptyFile,
      [defaultTimeout |-> Num(300)],
      [serverUrl |-> "https://file.example", apiKey |-> "key-file"],
      [organizationId |-> "org-file", defaultPollInterval |-> Num(30),
       maxViolations |-> Num(3), verbose |-> TRUE],
      [serverUrl |-> "ftp://file.example"],
      [server_url |-> "https://file.example", organization_id |-> "org-file",
       default_timeout |-> Num(300), default_poll_interval |-> Num(30),
       max_violations |-> Num(3), verbose |-> TRUE] }

\* the global options as typed on the command line ("" when not given)
FlagChoices ==
    [apiKey : {"", "key-flag"}, serverUrl : {"", "https://flag.example"},
     orgId : {""}, verbose : BOOLEAN]

\* {...a, ...b}
Merge(a, b) ==
    [k \in DOMAIN a \cup DOMAIN b |-> IF k \in DOMAIN b THEN b[k] ELSE a[k]]

\* getEnvConfig(): the environment with its fallbacks
getEnvConfig(e, saved) ==
    [serverUrl |-> OrElseStr(e.CT_SERVER_URL,
                      OrElseStr(saved.serverUrl,
                          OrElseStr(e.CT_PRODUCTION_URL, ServerUrlDefault))),
     apiKey |-> OrElseStr(e.CT_API_KEY, saved.apiKey),
     organizationId |-> e.CT_ORG_ID,
     defaultTimeout |-> parseInt(OrElseStr(e.CT_TIMEOUT, "1800")),
     defaultPollInterval |-> parseInt(OrElseStr(e.CT_POLL_INTERVAL, "10")),
     maxViolations |-> envMaxViolations(e.CT_MAX_VIOLATIONS),
     verbose |-> (e.CT_VERBOSE = "true")]

\* v < k and v > k for a parsed v and a number k: false when v is NaN
Below(v, k) == v.kind = "num" /\ v.n < k
Above(v, k) == v.kind = "num" /\ v.n > k

\* validateConfig: the error it throws, NoError when it returns
validateConfig(config) ==
    IF config.serverUrl = ""
    THEN [kind |-> "config", message |-> "Server URL is required"]
    ELSE IF ~startsWithHttp(config.serverUrl)
    THEN [kind |-> "config", message |-> "Server URL must start with http"]
    ELSE IF Below(config.defaultTimeout, MinTimeout) \/ Above(config.defaultTimeout, MaxTimeout)
    THEN [kind |-> "config", message |-> "Default timeout must be between 60 and 3600"]
    ELSE IF Below(config.defaultPollInterval, MinPollInterval)
            \/ Above(config.defaultPollInterval, MaxPollInterval)
    THEN [kind |-> "config", message |-> "Default poll interval must be between 5 and 60"]
    ELSE NoError

\* loadConfig: "Override with environment variables"
envOverrides(config, e) ==
    [config EXCEPT
       !.apiKey = IF e.CT_API_KEY # "" THEN e.CT_API_KEY ELSE @,
       !.serverUrl = IF e.CT_SERVER_URL # "" THEN e.CT_SERVER_URL ELSE @,
       !.organizationId = IF e.CT_ORG_ID # "" THEN e.CT_ORG_ID ELSE @,
       !.verbose = IF e.CT_VERBOSE = "true" THEN TRUE ELSE @]

\* loadConfig: the defaults, then the config file, then the overrides
loadedConfig(defaults, file, e) == envOverrides(Merge(defaults, file), e)

\* (variant) a configuration error is reported and the start-up goes on
afterLoadWarnOnly(err) == "loaded"

\* index.ts calls loadConfig() at its top level: an error it throws ends the process
afterLoad(err) == IF err = NoError THEN "loaded" ELSE "fatal"

\* (variant) the whole merged configuration is written
configToSaveWithKey(newConfig) == newConfig

\* saveConfig: the copy that is written, `delete configToSave.apiKey`
configToSave(newConfig) ==
    [k \in DOMAIN newConfig \ {"apiKey"} |-> newConfig[k]]

\* the modules are imported: config.ts evaluates DEFAULT_CONFIG and currentConfig,
\* api-client.ts constructs the apiClient singleton
importModules ==
    /\ stage = "start"
    /\ DEFAULT_CONFIG' = getEnvConfig(env, savedCredentials)
    /\ currentConfig' = DEFAULT_CONFIG'
    /\ apiClientConfig' = currentConfig'
    /\ baseURL' = OrElseStr(env.CT_SERVER_URL, apiClientConfig'.serverUrl)
    /\ stage' = "imported"
    /\ UNCHANGED <<env, savedCredentials, fileConfig, flags, configError, requests,
                   lastRequest, userFile, lastOp, configOps>>
    /\ UNCHANGED <<client, cfgOrgSlug, envOrgSlug, pc, options, now, submits, submitReq,
                   scanResponse, pollVars, response, sent, returned, thrown, cli>>

\* index.ts: loadConfig()
loadConfig ==
    /\ stage = "imported"
    /\ currentConfig' = loadedConfig(DEFAULT_CONFIG, fileConfig, env)
    /\ configError' = validateConfig(currentConfig')
    /\ stage' = afterLoad(configError')
    /\ UNCHANGED <<env, savedCredentials, fileConfig, flags, DEFAULT_CONFIG,
                   apiClientConfig, baseURL, requests, lastRequest, userFile, lastOp,
                   configOps>>
    /\ UNCHANGED <<client, cfgOrgSlug, envOrgSlug, pc, options, now, submits, submitReq,
                   scanResponse, pollVars, response, sent, returned, thrown, cli>>

\* index.ts: the preAction hook copies the global options into process.env;
\* --server-url defaults to CT_SERVER_URL || 'https://app.codethreat.com'
preAction ==
    /\ stage = "loaded"
    /\ LET opts == [flags EXCEPT
                      !.serverUrl = OrElseStr(@, OrElseStr(env.CT_SERVER_URL,
                                                           FlagServerUrlDefault))]
       IN env' = [env EXCEPT
                    !.CT_VERBOSE = IF opts.verbose THEN "true" ELSE "false",
                    !.CT_API_KEY = IF opts.apiKey # "" THEN opts.apiKey ELSE @,
                    !.CT_SERVER_URL = IF opts.serverUrl # "" THEN opts.serverUrl ELSE @,
                    !.CT_ORG_ID = IF opts.orgId # "" THEN opts.orgId ELSE @]
    /\ stage' = "hooked"
    /\ UNCHANGED <<savedCredentials, fileConfig, flags, DEFAULT_CONFIG, currentConfig,
                   apiClientConfig, baseURL, configError, requests, lastRequest,
                   userFile, lastOp, configOps>>
    /\ UNCHANGED <<client, cfgOrgSlug, envOrgSlug, pc, options, now, submits, submitReq,
                   scanResponse, pollVars, response, sent, returned, thrown, cli>>

\* the command sends a request through the apiClient singleton: the axios
\* baseURL, and the X-API-Key the request interceptor sets
sendRequest ==
    /\ stage = "hooked"
    /\ requests < MaxRequests
    /\ requests' = requests + 1
    /\ lastRequest' = [baseURL |-> baseURL,
                       apiKey |-> OrElseStr(apiClientConfig.apiKey, env.CT_API_KEY)]
    /\ UNCHANGED <<env, savedCredentials, fileConfig, flags, stage, DEFAULT_CONFIG,
                   currentConfig, apiClientConfig, baseURL, configError, userFile,
                   lastOp, configOps>>
    /\ UNCHANGED <<client, cfgOrgSlug, envOrgSlug, pc, options, now, submits, submitReq,
                   scanResponse, pollVars, response, sent, returned, thrown, cli>>

\* partial configurations the commands pass to saveConfig/updateConfig; the fourth
\* is auth login's for a user without organizations: organizationId is undefined
PartialChoices ==
    { EmptyFile,
      [apiKey |-> "key-new"],
      [serverUrl |-> "https://new.example", organizationId |-> "org-new"],
      [serverUrl |-> "https://new.example", organizationId |-> ""],
      [verbose |-> TRUE] }

\* saveConfig(config)
saveConfig ==
    /\ stage = "hooked"
    /\ configOps < MaxConfigOps
    /\ \E config \in PartialChoices :
         LET newConfig == Merge(currentConfig, config)
         IN /\ userFile' = configToSave(newConfig)
            /\ currentConfig' = newConfig
            /\ lastOp' = [op |-> "save", partial |-> config, before |-> currentConfig]
    /\ configOps' = configOps + 1
    /\ UNCHANGED <<env, savedCredentials, fileConfig, flags, stage, DEFAULT_CONFIG,
                   apiClientConfig, baseURL, configError, requests, lastRequest>>
    /\ UNCHANGED <<client, cfgOrgSlug, envOrgSlug, pc, options, now, submits, submitReq,
                   scanResponse, pollVars, response, sent, returned, thrown, cli>>

\* updateConfig(updates)
updateConfig ==
    /\ stage = "hooked"
    /\ configOps < MaxConfigOps
    /\ \E updates \in PartialChoices :
         /\ currentConfig' = Merge(currentConfig, updates)
         /\ lastOp' = [op |-> "update", partial |-> updates, before |-> currentConfig]
    /\ configOps' = configOps + 1
    /\ UNCHANGED <<env, savedCredentials, fileConfig, flags, stage, DEFAULT_CONFIG,
                   apiClientConfig, baseURL, configError, requests, lastRequest, userFile>>
    /\ UNCHANGED <<client, cfgOrgSlug, envOrgSlug, pc, options, now, submits, submitReq,
                   scanResponse, pollVars, response, sent, returned, thrown, cli>>

\* no scan is running while the process starts up
scanAtRest ==
    /\ client = "polling"
    /\ cfgOrgSlug = ""
    /\ envOrgSlug = ""
    /\ pc = "idle"
    /\ options = NoValue
    /\ now = 0
    /\ submits = 0
    /\ submitReq = NoValue
    /\ scanResponse = NoValue
    /\ startTime = 0
    /\ timeoutMs = 0
    /\ pollIntervalMs = 0
    /\ polls = 0
    /\ statusIds = {}
    /\ firstPollAt = 0
    /\ lastPollAt = 0
    /\ nonTerminal = 0
    /\ statusResponse = NoValue
    /\ response = NoValue
    /\ sent = {}
    /\ instant = TRUE
    /\ returned = NoValue
    /\ thrown = NoError
    /\ cli = [stage |-> "library"]

\* a process is started: nothing is imported yet
processStart ==
    /\ scanAtRest
    /\ stage = "start"
    /\ DEFAULT_CONFIG = NoValue
    /\ currentConfig = NoValue
    /\ apiClientConfig = NoValue
    /\ baseURL = ""
    /\ configError = NoError
    /\ requests = 0
    /\ lastRequest = NoValue
    /\ userFile = NoValue
    /\ lastOp = NoValue
    /\ configOps = 0

\* one invocation of the CLI, from the start of the process to its requests
ConfigInit ==
    /\ processStart
    /\ env \in EnvChoices
    /\ savedCredentials \in CredentialChoices
    /\ fileConfig \in FileChoices
    /\ flags \in FlagChoices

ConfigNext == importModules \/ loadConfig \/ preAction \/ sendRequest

ConfigSpec == ConfigInit /\ [][ConfigNext]_vars

\* a command that saves or updates the configuration: CT_API_KEY set or not,
\* credentials saved or not, no config file yet
SaveInit ==
    /\ processStart
    /\ env \in [CT_SERVER_URL : {""}, CT_PRODUCTION_URL : {""}, CT_API_KEY : {"", "key-env"},
                CT_ORG_ID : {"", "org-env"}, CT_TIMEOUT : {""}, CT_POLL_INTERVAL : {""},
                CT_MAX_VIOLATIONS : {""}, CT_VERBOSE : {""}]
    /\ savedCredentials \in CredentialChoices
    /\ fileConfig = EmptyFile
    /\ flags = [apiKey |-> "", serverUrl |-> "", orgId |-> "", verbose |-> FALSE]

SaveNext == ConfigNext \/ saveConfig \/ updateConfig

SaveSpec == SaveInit /\ [][SaveNext]_vars

-----------------------------------------------------------------------------
(* Properties of the configuration resolution *)

\* loadConfig has returned and nothing has run since
Resolved == stage = "loaded"

\* the environment variable of a configuration field
EnvVarOf(field) ==
    CASE field = "serverUrl" -> env.CT_SERVER_URL
      [] field = "apiKey" -> env.CT_API_KEY
      [] field = "organizationId" -> env.CT_ORG_ID
      [] field = "defaultTimeout" -> env.CT_TIMEOUT
      [] field = "defaultPollInterval" -> env.CT_POLL_INTERVAL
      [] field = "maxViolations" -> env.CT_MAX_VIOLATIONS
      [] field = "verbose" -> env.CT_VERBOSE

\* the value an environment variable gives to its field
EnvValueOf(field) ==
    CASE field \in {"serverUrl", "apiKey", "organizationId"} -> EnvVarOf(field)
      [] field \in {"defaultTimeout", "defaultPollInterval", "maxViolations"} ->
             parseInt(EnvVarOf(field))
      [] field = "verbose" -> (EnvVarOf(field) = "true")

ConfigFields ==
    {"serverUrl", "apiKey", "organizationId", "defaultTimeout", "defaultPollInterval",
     "maxViolations", "verbose"}

\* C11: a field set both by an environment variable and by the loaded config
\* file resolves to the environment's value, for every field.
C11_EnvOverFile ==
    Resolved =>
        \A field \in ConfigFields :
            (EnvVarOf(field) # "" /\ field \in DOMAIN fileConfig)
                => currentConfig[field] = EnvValueOf(field)

\* C12: an API key or server URL given on the command line (--api-key,
\* --server-url) is the one every request of that invocation is sent with.
C12_OverrideUsedForRequests ==
    requests > 0 =>
        /\ (flags.apiKey # "" => lastRequest.apiKey = flags.apiKey)
        /\ (flags.serverUrl # "" => lastRequest.baseURL = flags.serverUrl)

\* C13: when the saved credentials and the loaded config file both set serverUrl
\* (or apiKey) and no environment variable sets it, the resolved value is the
\* one of the saved credentials.
C13_CredentialsOverFile ==
    Resolved =>
        \A field \in {"serverUrl", "apiKey"} :
            (/\ EnvVarOf(field) = ""
             /\ savedCredentials[field] # ""
             /\ field \in DOMAIN fileConfig)
                => currentConfig[field] = savedCredentials[field]

\* loadConfig has run: it returned or it threw
Validated == stage \in {"loaded", "fatal"}

\* lo <= v <= hi for a configuration number v
InRange(v, lo, hi) == v.kind = "num" /\ lo <= v.n /\ v.n <= hi

\* C14: with a valid serverUrl, resolution succeeds iff 60 <= defaultTimeout <= 3600
\* and 5 <= defaultPollInterval <= 60.
C14_BoundsValidation ==
    (Validated /\ currentConfig.serverUrl # "" /\ startsWithHttp(currentConfig.serverUrl))
        => (configError = NoError
              <=> /\ InRange(currentConfig.defaultTimeout, 60, 3600)
                  /\ InRange(currentConfig.defaultPollInterval, 5, 60))

\* C15: when validation of the resolved configuration fails, the process ends
\* there: no request has been sent and none is sent afterwards.
C15_ValidationFailureBeforeRequests ==
    configError # NoError => (stage = "fatal" /\ requests = 0 /\ ~ENABLED ConfigNext)

C15_Witness ==
    /\ stage = "fatal"
    /\ configError.kind = "config"
    /\ env.CT_TIMEOUT = "59"
    /\ requests = 0

-----------------------------------------------------------------------------
(* Properties of the failure outcomes *)

\* C16: the failure kinds lead to distinct exit codes, those of the README: a
\* threshold FAIL exits with 4, an error of runScan (a scan that FAILED among
\* them) with the general code 1, so the two never share an exit code.
C16_DistinctExitCodes ==
    cli.stage = "exited" =>
        /\ (cli.reason \in TierSet \cup {"maxViolations"} => cli.exitCode = 4)
        /\ (cli.reason = "error" => cli.exitCode = 1)
        /\ (cli.reason = "none" => cli.exitCode = 0)

\* C17: a timeout outcome of the poll loop carries the scan id, the elapsed time
\* actually measured and the last status observed before the deadline, and it
\* is not the FAILED outcome.
C17_TimeoutCarriesElapsedAndStatus ==
    (Polling /\ pc = "done" /\ thrown.kind = "timeout") =>
        /\ thrown.scanId = pollTarget(scanResponse)
        /\ thrown.kind # "scan_failed"
        /\ thrown.seconds = RoundSeconds(now - startTime)
        /\ "status" \in DOMAIN thrown
        /\ (polls > 0 => thrown.status = statusResponse.scan.status)

\* the run ended with a remote-service error
RemoteFailure == Polling /\ thrown.kind = "remote_error"

\* a remote-service error ends the run at once: a failed submit is followed by
\* no status call, a failed k-th status call by no further one
C18_NoRetry ==
    RemoteFailure =>
        /\ pc = "done" /\ ~ENABLED Next
        /\ submits = 1
        /\ (scanResponse = NoValue => polls = 0)
        /\ (scanResponse # NoValue => polls = nonTerminal + 1)

\* C18: a remote-service error on the submit or on a status call is never
\* retried, no further request is issued, and the error the caller gets carries
\* the original HTTP status and error code of the response.
C18_RemoteErrorPropagated ==
    /\ C18_NoRetry
    /\ RemoteFailure =>
          /\ (response.http # 200 => thrown.http = response.http)
          /\ thrown.code = response.error.code

-----------------------------------------------------------------------------
(* Properties of saveConfig and updateConfig *)

\* C19: after any sequence of saveConfig and updateConfig calls the user-level
\* config file that saveConfig wrote has no API key, whatever the partial or the
\* snapshot holds, and right after a saveConfig the snapshot is the previous
\* snapshot merged with the partial (and the file is that snapshot without the key).
C19_SaveSanitizedAndMerged ==
    /\ "apiKey" \notin DOMAIN userFile
    /\ (configOps > 0 /\ lastOp.op = "save") =>
          /\ currentConfig = Merge(lastOp.before, lastOp.partial)
          /\ \A field \in DOMAIN currentConfig \ {"apiKey"} :
                field \in DOMAIN userFile /\ userFile[field] = currentConfig[field]

\* the snapshot already holds a key and saveConfig is given a partial with a key:
\* the snapshot keeps the key, the file is written
C19_Witness ==
    /\ configOps = 2
    /\ lastOp.op = "save"
    /\ lastOp.before.apiKey = "key-new"
    /\ "apiKey" \in DOMAIN lastOp.partial
    /\ currentConfig.apiKey = "key-new"
    /\ userFile # NoValue

-----------------------------------------------------------------------------
(* Properties of the success outcome *)

\* the poll loop has returned its success outcome
PollSuccess == Polling /\ pc = "done" /\ thrown = NoError /\ polls > 0

\* C20: in every success outcome of the poll loop, results.total is
\* critical + high + medium + low, and every count is a non-negative integer.
C20_TotalIsSumOfTiers ==
    PollSuccess =>
        /\ returned.results.total =
               returned.results.critical + returned.results.high
                   + returned.results.medium + returned.results.low
        /\ \A t \in {"total", "critical", "high", "medium", "low"} :
               returned.results[t] \in Nat

-----------------------------------------------------------------------------
(* Properties of partial updates and of the config file's keys *)

StringFields == {"serverUrl", "apiKey", "organizationId"}

\* the partial sets the field to a value: the key is there and is not undefined
SetsValue(partial, field) ==
    /\ field \in DOMAIN partial
    /\ (field \in StringFields => partial[field] # "")

\* C21: saveConfig and updateConfig leave every field the partial does not set
\* to a value as it was: no existing value is replaced by undefined.
C21_UnsetFieldsKeepPriorValue ==
    configOps > 0 =>
        \A field \in DOMAIN lastOp.before :
            ~SetsValue(lastOp.partial, field) => currentConfig[field] = lastOp.before[field]

\* the key under which the README and getConfigTemplate document a field
DocumentedKey(field) ==
    CASE field = "serverUrl" -> "server_url"
      [] field = "organizationId" -> "organization_id"
      [] field = "defaultTimeout" -> "default_timeout"
      [] field = "defaultPollInterval" -> "default_poll_interval"
      [] field = "maxViolations" -> "max_violations"
      [] field = "verbose" -> "verbose"

\* C22: a value the config file has under the documented key of a field is the
\* resolved value of that field when neither the environment nor the saved
\* credentials set it.
C22_DocumentedKeysResolve ==
    Resolved =>
        \A field \in ConfigFields \ {"apiKey"} :
            (/\ DocumentedKey(field) \in DOMAIN fileConfig
             /\ EnvVarOf(field) = ""
             /\ (field = "serverUrl" => savedCredentials.serverUrl = ""))
                => currentConfig[field] = fileConfig[DocumentedKey(field)]

-----------------------------------------------------------------------------
(* runScan called a second time with the arguments of a call that succeeded *)

\* the second call: the poll bookkeeping of the model starts again
runScanAgain ==
    /\ pc = "done"
    /\ submits = 1
    /\ thrown = NoError
    /\ runScanPolling(options)
    /\ startTime' = 0
    /\ timeoutMs' = 0
    /\ pollIntervalMs' = 0
    /\ polls' = 0
    /\ statusIds' = {}
    /\ firstPollAt' = 0
    /\ lastPollAt' = 0
    /\ nonTerminal' = 0
    /\ statusResponse' = NoValue
    /\ instant' = TRUE
    /\ returned' = NoValue
    /\ UNCHANGED confVars
    /\ UNCHANGED <<client, cfgOrgSlug, envOrgSlug, now, scanResponse, response, cli>>

\* a first runScan call has returned: unwaited, or waited and COMPLETED at the
\* first poll
ResubmitInit ==
    LET sub == [scan |-> [id |-> "s1", status |-> "PENDING"],
                synchronous |-> FALSE, results |-> NoValue, duration |-> 0]
        st == [scan |-> [id |-> "s1", status |-> "COMPLETED"],
               results |-> mkResults(10, 1, 2, 3, 4)]
    IN
    /\ client = "polling"
    /\ cfgOrgSlug = ""
    /\ envOrgSlug = ""
    /\ pc = "done"
    /\ \E w \in BOOLEAN :
         options = [organizationSlug |-> "acme", wait |-> w, timeout |-> 25, pollInterval |-> 10]
    /\ now = 0
    /\ submits = 1
    /\ submitReq = buildSubmitRequest(options)
    /\ scanResponse = sub
    /\ startTime = 0
    /\ timeoutMs = (IF options.wait THEN 25 * MsPerSecond ELSE 0)
    /\ pollIntervalMs = (IF options.wait THEN 10 * MsPerSecond ELSE 0)
    /\ polls = (IF options.wait THEN 1 ELSE 0)
    /\ statusIds = (IF options.wait THEN {"s1"} ELSE {})
    /\ firstPollAt = 0
    /\ lastPollAt = 0
    /\ nonTerminal = 0
    /\ instant = TRUE
    /\ statusResponse = (IF options.wait THEN st ELSE NoValue)
    /\ returned = (IF options.wait THEN completedResult(st, sub, 0) ELSE sub)
    /\ thrown = NoError
    /\ response = [http |-> 200, success |-> TRUE, hasData |-> TRUE,
                   data |-> (IF options.wait THEN st ELSE sub), error |-> NoApiError]
    /\ sent = {scanRunRequest} \cup (IF options.wait THEN {statusRequest("s1")} ELSE {})
    /\ cli = [stage |-> "library"]
    /\ configAtRest

ResubmitNext == runScanAgain \/ submitSettles \/ getScanStatusSettles \/ setTimeoutFires

ResubmitSpec == ResubmitInit /\ [][ResubmitNext]_vars

\* the second call has returned and the service had answered its submit with
\* "already exists"
ResubmittedExisting ==
    /\ pc = "done" /\ submits = 2 /\ thrown = NoError
    /\ "alreadyExists" \in DOMAIN scanResponse
    /\ scanResponse.alreadyExists

\* C23: a second runScan call with identical arguments, against a service that
\* reports "already exists", yields a result whose alreadyExists flag is true
\* and whose scan is the one that existed.
C23_ResubmitReportsAlreadyExists ==
    ResubmittedExisting =>
        /\ returned.scan.id = scanResponse.scan.id
        /\ "alreadyExists" \in DOMAIN returned
        /\ returned.alreadyExists

-----------------------------------------------------------------------------
(* Properties of the client's use of the configuration *)

\* C24: when a request is sent, the server URL, API key and verbose setting the
\* client uses are those of the snapshot loadConfig produced, values from the
\* config file included.
C24_ClientUsesResolvedConfig ==
    requests > 0 =>
        /\ lastRequest.baseURL = currentConfig.serverUrl
        /\ lastRequest.apiKey = currentConfig.apiKey
        /\ apiClientConfig.verbose = currentConfig.verbose

-----------------------------------------------------------------------------
(* runScan called by a process that has resolved its configuration *)

\* values of CT_TIMEOUT and CT_POLL_INTERVAL, and config files, that pass validateConfig
DefaultsEnvChoices ==
    [CT_SERVER_URL : {""}, CT_PRODUCTION_URL : {""}, CT_API_KEY : {"key-env"},
     CT_ORG_ID : {""}, CT_TIMEOUT : {"", "60"}, CT_POLL_INTERVAL : {"5"},
     CT_MAX_VIOLATIONS : {""}, CT_VERBOSE : {""}]

DefaultsInit ==
    /\ processStart
    /\ env \in DefaultsEnvChoices
    /\ savedCredentials = [apiKey |-> "", serverUrl |-> ""]
    /\ fileConfig \in {EmptyFile, [defaultTimeout |-> Num(300)]}
    /\ flags = [apiKey |-> "", serverUrl |-> "", orgId |-> "", verbose |-> FALSE]

\* a command's action calls apiClient.runScan with wait, with or without a
\* timeout and a poll interval
runScanConfigured ==
    /\ stage = "hooked"
    /\ pc = "idle"
    /\ \E o \in [organizationSlug : {"acme"}, wait : {TRUE},
                 timeout : {0, 25}, pollInterval : PollIntervalChoices] :
          runScanPolling(o)
    /\ UNCHANGED confVars
    /\ UNCHANGED <<client, cfgOrgSlug, envOrgSlug, now, scanResponse, pollVars, response,
                   returned, cli>>

DefaultsNext ==
    \/ importModules
    \/ loadConfig
    \/ preAction
    \/ runScanConfigured
    \/ submitSettles
    \/ getScanStatusSettles
    \/ setTimeoutFires

DefaultsSpec == DefaultsInit /\ [][DefaultsNext]_vars

\* the poll loop of a waited call has started
PollLoopStarted == stage = "hooked" /\ options # NoValue /\ options.wait /\ polls > 0

\* C25: a poll loop whose caller gave no timeout (or 0) runs with the resolved
\* configuration's defaultTimeout, and one whose caller gave no poll interval
\* (or 0) with its defaultPollInterval.
C25_PollLoopUsesConfiguredDefaults ==
    PollLoopStarted =>
        /\ options.timeout = 0 =>
               timeoutMs = currentConfig.defaultTimeout.n * MsPerSecond
        /\ options.pollInterval = 0 =>
               pollIntervalMs = currentConfig.defaultPollInterval.n * MsPerSecond

-----------------------------------------------------------------------------
(* The order of the threshold checks of `scan run` *)

CheckOrder == <<"critical", "high", "medium", "low">>

\* the reason reported is that of the first check in the order that fires
C26_FirstReason ==
    (Evaluated /\ cli.exitCode = 1) =>
        /\ \A i \in DOMAIN CheckOrder :
             (TierFires(CheckOrder[i]) /\ \A j \in 1..(i - 1) : ~TierFires(CheckOrder[j]))
                 => cli.reason = CheckOrder[i]
        /\ (\A i \in DOMAIN CheckOrder : ~TierFires(CheckOrder[i]))
                 => cli.reason = "maxViolations"

\* the process has exited: nothing is reported after that
C26_ExitOnce == (cli.stage = "exited") => (cli' = cli)

\* C26: when several failure predicates hold at once, the failure carries the
\* reason of the first in the order critical, high, medium, low, maxViolations,
\* and the process exits non-zero once.
C26_FirstMatchReported == []C26_FirstReason /\ [][C26_ExitOnce]_vars

\* high and low fire and the aggregate is exceeded, critical does not: "high"
C26_Witness ==
    /\ Evaluated
    /\ ~TierFires("critical") /\ TierFires("high") /\ TierFires("low")
    /\ maxViolationsCheck(returned.results.total, cli.config.maxViolations)
    /\ cli.exitCode = 1 /\ cli.reason = "high"

-----------------------------------------------------------------------------
(* Properties of the requests of the poll loop *)

\* an iteration of the poll loop is under way: a status request is pending, or
\* the loop sleeps
InPollLoop == Polling /\ pc \in {"status_pending", "sleeping"}

\* of the requests issued so far, the submit is the only one that is not a read
C27_OnlySubmitWrites ==
    (Polling /\ submits = 1) => {r \in sent : r.method # "GET"} = {scanRunRequest}

\* a step of the loop issues nothing but a status read for the submitted scan
\* and leaves the submit, the loop's parameters and the configuration as they were
C27_LoopStep ==
    InPollLoop =>
        /\ \A r \in sent' \ sent : r.method = "GET" /\ r.id = scanResponse.scan.id
        /\ UNCHANGED <<submits, submitReq, scanResponse, options, startTime, timeoutMs,
                       pollIntervalMs>>
        /\ UNCHANGED confVars

\* C27: between the submit and the outcome the only requests issued are status
\* reads; no iteration changes local state, and on timeout or FAILED no cancel
\* or other write request is sent.
C27_PollLoopOnlyReads == []C27_OnlySubmitWrites /\ [][C27_LoopStep]_vars

\* a poll loop that ended by the timeout after two status reads: one POST, the
\* submit, and status reads of the submitted scan only
C27_Witness ==
    /\ Polling /\ pc = "done" /\ thrown.kind = "timeout" /\ polls >= 2
    /\ sent = {scanRunRequest, statusRequest(scanResponse.scan.id)}

-----------------------------------------------------------------------------
(* `org select`, and the invocation of the CLI that follows it *)

OrgIds == {"org-a", "org-b"}

\* the environment of the shell: an API key, CT_ORG_ID unset
OrgEnv ==
    [CT_SERVER_URL |-> "", CT_PRODUCTION_URL |-> "", CT_API_KEY |-> "key-env",
     CT_ORG_ID |-> "", CT_TIMEOUT |-> "", CT_POLL_INTERVAL |-> "",
     CT_MAX_VIOLATIONS |-> "", CT_VERBOSE |-> ""]

OrgInit ==
    /\ processStart
    /\ env = OrgEnv
    /\ savedCredentials \in CredentialChoices
    /\ fileConfig \in {EmptyFile, [organizationId |-> "org-file"]}
    /\ flags \in [apiKey : {""}, serverUrl : {""}, orgId : {""}, verbose : BOOLEAN]

\* org select <organization-id>: validateAuth lists the user's organizations;
\* without access the command exits 1, with access it calls updateConfig
orgSelect ==
    /\ stage = "hooked"
    /\ cli.stage = "library"
    /\ \E organizationId \in OrgIds, organizations \in SUBSET OrgIds :
         LET hasAccess == organizationId \in organizations
         IN /\ requests' = requests + 1
            /\ lastRequest' = [baseURL |-> baseURL,
                               apiKey |-> OrElseStr(apiClientConfig.apiKey, env.CT_API_KEY)]
            /\ IF hasAccess
               THEN /\ currentConfig' = Merge(currentConfig, [organizationId |-> organizationId])
                    /\ lastOp' = [op |-> "update",
                                  partial |-> [organizationId |-> organizationId],
                                  before |-> currentConfig]
                    /\ configOps' = configOps + 1
               ELSE UNCHANGED <<currentConfig, lastOp, configOps>>
            /\ cli' = [stage |-> "exited", command |-> "org select",
                       id |-> organizationId, hasAccess |-> hasAccess,
                       before |-> currentConfig.organizationId,
                       exitCode |-> IF hasAccess THEN 0 ELSE 1]
    /\ stage' = "exited"
    /\ UNCHANGED <<env, savedCredentials, fileConfig, flags, DEFAULT_CONFIG,
                   apiClientConfig, baseURL, configError, userFile>>
    /\ UNCHANGED <<client, cfgOrgSlug, envOrgSlug, pc, options, now, submits, submitReq,
                   scanResponse, pollVars, response, sent, returned, thrown>>

\* the CLI is invoked again: a new process, with the shell's environment and
\* the config file as the previous process left it
nextInvocation ==
    /\ stage = "exited"
    /\ stage' = "start"
    /\ env' = OrgEnv
    /\ fileConfig' = (IF userFile = NoValue THEN fileConfig ELSE userFile)
    /\ DEFAULT_CONFIG' = NoValue
    /\ currentConfig' = NoValue
    /\ apiClientConfig' = NoValue
    /\ baseURL' = ""
    /\ configError' = NoError
    /\ UNCHANGED <<savedCredentials, flags, requests, lastRequest, userFile, lastOp,
                   configOps>>
    /\ UNCHANGED <<client, cfgOrgSlug, envOrgSlug, pc, options, now, submits, submitReq,
                   scanResponse, pollVars, response, sent, returned, thrown, cli>>

OrgNext == importModules \/ loadConfig \/ preAction \/ orgSelect \/ nextInvocation

OrgSpec == OrgInit /\ [][OrgNext]_vars

\* `org select` has run and a later invocation has resolved its configuration
AfterOrgSelect == cli.stage = "exited" /\ Resolved

\* C28: `org select <id>` exits 0 iff the user has access to <id>; after a
\* success the configuration a later invocation resolves has organizationId
\* <id>, after a refusal it has the organizationId it had before.
C28_OrgSelectSetsDefault ==
    AfterOrgSelect =>
        /\ cli.hasAccess <=> cli.exitCode = 0
        /\ cli.exitCode = 0 => currentConfig.organizationId = cli.id
        /\ cli.exitCode # 0 => currentConfig.organizationId = cli.before

-----------------------------------------------------------------------------
(* The exit decision of `scan run` across output formats *)

\* the command has exited after a waited scan that reached COMPLETED
ExitedAfterCompleted ==
    /\ cli.stage = "exited" /\ options.wait /\ thrown = NoError
    /\ statusResponse # NoValue /\ statusResponse.scan.status = "COMPLETED"

\* the legacy aggregate is set and the total is above it
AggregateExceeded ==
    /\ cli.config.maxViolations.kind = "num"
    /\ returned.results.total > cli.config.maxViolations.n

\* C29: after a waited scan that reached COMPLETED, whenever an enabled
\* threshold is met or the legacy aggregate is exceeded the process exits
\* non-zero, in json and in table format, with or without an output file.
C29_ExitIndependentOfFormat ==
    ExitedAfterCompleted =>
        (((\E t \in TierSet : TierFires(t)) \/ AggregateExceeded) => cli.exitCode # 0)

-----------------------------------------------------------------------------
(* Properties of the poll loop for statuses that are not terminal *)

\* the latest status observed is neither COMPLETED nor FAILED
ObservedNonTerminal ==
    statusResponse # NoValue /\ statusResponse.scan.status \notin {"COMPLETED", "FAILED"}

\* after such a status the loop sleeps or polls again; it has returned nothing,
\* and it is over only by a remote error or the timeout. Every round of the
\* loop has its own status request.
C30_State ==
    Polling =>
        /\ ObservedNonTerminal =>
              /\ returned = NoValue
              /\ pc \in {"sleeping", "status_pending", "done"}
              /\ pc = "done" => thrown.kind \in {"remote_error", "timeout"}
        /\ polls >= 1 => polls \in {nonTerminal, nonTerminal + 1}
        /\ pc = "status_pending" => polls = nonTerminal + 1

\* a status response that is not terminal puts the loop to sleep; the sleep
\* lasts one interval at least and is followed by a new status request, or by
\* the timeout once the deadline has passed
C30_Step ==
    /\ (Polling /\ pc = "status_pending" /\ statusResponse' # statusResponse
          /\ statusResponse'.scan.status \notin {"COMPLETED", "FAILED"})
           => pc' = "sleeping"
    /\ (Polling /\ pc = "sleeping") =>
          /\ now' - now >= pollIntervalMs
          /\ \/ pc' = "status_pending" /\ polls' = polls + 1
             \/ pc' = "done" /\ thrown'.kind = "timeout" /\ now' - startTime >= timeoutMs

\* C30: a status other than COMPLETED and FAILED (PENDING, SCANNING, a
\* regression, an unknown value) is non-terminal: the loop sleeps one interval
\* and polls again, so the sequence ends only by a later terminal status, a
\* remote error or the timeout, and every round asks the service anew.
C30_NonTerminalPolledAgain == []C30_State /\ [][C30_Step]_vars

\* an unknown status, QUEUED, was the second non-terminal observation and a
\* third status request is under way
C30_Witness ==
    /\ Polling /\ Observed("QUEUED") /\ pc = "status_pending"
    /\ nonTerminal = 2 /\ polls = 3

====
